---- MODULE Spec2Model ----
(***************************************************************************)
(* Model of the reference layout (collapse state, URL fragment, debounced  *)
(* scroll handler, resize observer, server-side state hand-off, slot       *)
(* forwarding), of the request-history list and of the embedded client     *)
(* widget of packages/api-client.                                          *)
(***************************************************************************)
EXTENDS Integers, Sequences, FiniteSets, TLC

VARIABLES
    \* ---- reference layout ----
    parsedSpec,             \* props.parsedSpec: a record, the field tags is optional
    hash,                   \* useNavState().hash, the fragment without '#'
    location,               \* window.location: [pathname, search, hash]
    collapsedSidebarItems,  \* useSidebar().collapsedSidebarItems: section id -> BOOLEAN, partial
    ctx,                    \* useSSRContext() of the server pass: [exists], scalarState optional
    phase,                  \* "server" and "rendered" (server pass), "client", "mounted"
    scrollTop,              \* documentEl.scrollTop
    pendingScroll,          \* the call useDebounceFn holds back: <<>> or <<event>>
    burst,                  \* the scroll events of the running debounce window: [under, last]
    elementHeight,          \* elementHeight.value, bound to --full-height
    tippyScrolledTop,       \* whether onMounted scrolled #tippy to the top
    downloadSubscribed,     \* whether downloadSpecBus has the layout's listener
    thrown,                 \* the error the last operation raised, or NoError
    lastOp,                 \* the last operation that ran: [name], with its input
    \* ---- slot forwarding ----
    configuration,          \* props.configuration: [showSidebar, isEditable, layout]
    isLargeScreen,          \* useMediaQuery('(min-width: 1150px)')
    footerSlot,             \* $slots.footer: whether the caller passed a footer slot
    breadcrumb,             \* useSidebar().breadcrumb
    renderedSlots,          \* the <slot> outlets of the last render: [name, host, props]
    \* ---- embedded client and request history ----
    container,              \* element.innerHTML of the widget's container, as a sequence of markers
    requestHistoryOrder,    \* useRequestStore().requestHistoryOrder
    renderedRows            \* the RequestHistoryItem rows of the last render

layoutVars == <<parsedSpec, hash, location, collapsedSidebarItems, ctx, phase,
                scrollTop, pendingScroll, burst, elementHeight, tippyScrolledTop,
                downloadSubscribed, thrown>>
slotVars == <<configuration, isLargeScreen, footerSlot, breadcrumb, renderedSlots>>
clientVars == <<container, requestHistoryOrder, renderedRows>>
vars == <<layoutVars, slotVars, clientVars, lastOp>>

----------------------------------------------------------------------------
(* Bounds *)

MaxTags == 2            \* tags are named 1..MaxTags
MaxResizeEntries == 2   \* longest entries list handed to the resize callback
MaxHeights == 2         \* observed heights are 100, 200, ..
MaxHistory == 3         \* history ids are 1..MaxHistory
MaxCrumbs == 2          \* breadcrumb values besides the empty one

(* Program constants *)

ScrollThreshold == 50

NoError == "none"
SidebarStateKey == "useSidebarContent-collapsedSidebarItems"

----------------------------------------------------------------------------
(* Parsed documents, tags and fragments *)

TagNames == 1..MaxTags

\* the sequences over S of length at most n that repeat no element
SeqsNoRepeat(S, n) ==
    {s \in UNION {[1..k -> S] : k \in 0..n} :
        \A i, j \in DOMAIN s : i # j => s[i] # s[j]}

TagLists == {[i \in DOMAIN s |-> [name |-> s[i]]] : s \in SeqsNoRepeat(TagNames, MaxTags)}

ParsedSpecs == {[info |-> "api"]} \cup {[info |-> "api", tags |-> t] : t \in TagLists}

TagFragment(n) == "tag/" \o ToString(n)
OperationFragment(n) == TagFragment(n) \o "/get/items"
Fragments == {""} \cup {TagFragment(n) : n \in TagNames}
                  \cup {OperationFragment(n) : n \in TagNames}
                  \cup {"description/introduction"}

\* useNavState().getTagId: the section identifier of a tag
getTagId(tag) == "tag/" \o ToString(tag.name)

\* the section identifiers any document of the model can have
TagSections == {getTagId([name |-> n]) : n \in TagNames}

\* the section identifiers known from the parsed document
KnownSections ==
    IF "tags" \in DOMAIN parsedSpec
    THEN {getTagId(parsedSpec.tags[i]) : i \in DOMAIN parsedSpec.tags}
    ELSE {}

\* useNavState().getSectionId: the section a fragment identifies, "" when it
\* identifies none
getSectionId(hashStr) ==
    LET named == {n \in TagNames : hashStr \in {TagFragment(n), OperationFragment(n)}}
        ids == {getTagId([name |-> n]) : n \in named} \cap KnownSections
    IN  IF ids = {} THEN "" ELSE CHOOSE id \in ids : TRUE


----------------------------------------------------------------------------
(* The sidebar state (useSidebar) *)

\* the expanded/collapsed state a node reads from the map: a missing entry
\* reads undefined, which is falsy
IsExpanded(items, key) == key \in DOMAIN items /\ items[key]

\* collapsedSidebarItems[key] = value
setCollapsedSidebarItem(items, key, value) ==
    [k \in DOMAIN items \cup {key} |-> IF k = key THEN value ELSE items[k]]

\* a toggle that only ever expands
toggleCollapsedSidebarItem_ExpandOnly(items, key) ==
    setCollapsedSidebarItem(items, key, TRUE)

\* collapsedSidebarItems[key] = !collapsedSidebarItems[key]
toggleCollapsedSidebarItem(items, key) ==
    setCollapsedSidebarItem(items, key, ~IsExpanded(items, key))

----------------------------------------------------------------------------
(* onMounted *)

\* an optional value (undefined / null) is a sequence of length 0 or 1
Null == <<>>
Some(v) == <<v>>
\* JavaScript truthiness of an optional string
Truthy(opt) == opt # Null /\ opt[1] # ""

\* the last tag taken for the first
FirstTag_Last(spec) ==
    IF "tags" \in DOMAIN spec /\ Len(spec.tags) > 0 THEN Some(spec.tags[Len(spec.tags)])
    ELSE Null

\* props.parsedSpec.tags?.[0]
FirstTag(spec) ==
    IF "tags" \in DOMAIN spec /\ Len(spec.tags) > 0 THEN Some(spec.tags[1]) ELSE Null

\* onMounted with the fragment ignored: the first tag whatever the hash
MountSectionId_FirstTagOnly ==
    LET firstTag == FirstTag(parsedSpec)
    IN  IF firstTag # Null THEN Some(getTagId(firstTag[1])) ELSE Null

\* the sectionId onMounted computes
MountSectionId ==
    LET firstTag == FirstTag(parsedSpec)
    IN  IF hash # "" THEN Some(getSectionId(hash))
        ELSE IF firstTag # Null THEN Some(getTagId(firstTag[1]))
        ELSE Null

\* onMounted without the guard on sectionId
MountCollapsed_Unguarded(items) ==
    LET sectionId == MountSectionId
    IN  setCollapsedSidebarItem(items, IF sectionId = Null THEN "" ELSE sectionId[1], TRUE)

\* onMounted replacing the map by the one section it opens
MountCollapsed_Reset(items) ==
    LET sectionId == MountSectionId
    IN  IF Truthy(sectionId) THEN setCollapsedSidebarItem(<<>>, sectionId[1], TRUE)
        ELSE items

\* if (sectionId) setCollapsedSidebarItem(sectionId, true)
MountCollapsed(items) ==
    LET sectionId == MountSectionId
    IN  IF Truthy(sectionId) THEN setCollapsedSidebarItem(items, sectionId[1], TRUE)
        ELSE items

onMounted ==
    /\ phase = "client"
    /\ phase' = "mounted"
    /\ tippyScrolledTop' = IF hash = "" THEN TRUE ELSE tippyScrolledTop
    /\ collapsedSidebarItems' = MountCollapsed(collapsedSidebarItems)
    /\ downloadSubscribed' = TRUE
    /\ thrown' = NoError
    /\ lastOp' = [name |-> "onMounted", before |-> collapsedSidebarItems]
    /\ UNCHANGED <<parsedSpec, hash, location, ctx, scrollTop, pendingScroll,
                   burst, elementHeight>>
    /\ UNCHANGED <<slotVars, clientVars>>

----------------------------------------------------------------------------
(* onServerPrefetch and hydration *)

\* defaultStateFactory(): the empty hand-off state
defaultStateFactory == (SidebarStateKey :> <<>>)

\* if (firstTag) setCollapsedSidebarItem(getTagId(firstTag), true)
PrefetchCollapsed(items) ==
    LET firstTag == FirstTag(parsedSpec)
    IN  IF firstTag # Null THEN setCollapsedSidebarItem(items, getTagId(firstTag[1]), TRUE)
        ELSE items

\* the hand-off left at its default, the collapse state never written
PrefetchContext_NoWrite(c, items) ==
    IF ~c.exists THEN c
    ELSE [exists |-> TRUE,
          scalarState |-> IF "scalarState" \in DOMAIN c THEN c.scalarState
                          ELSE defaultStateFactory]

\* the hand-off written without the guard on the context
PrefetchContext_Unguarded(c, items) ==
    LET state == IF "scalarState" \in DOMAIN c THEN c.scalarState ELSE defaultStateFactory
    IN  [exists |-> TRUE,
         scalarState |-> [k \in DOMAIN state \cup {SidebarStateKey} |->
                             IF k = SidebarStateKey THEN items ELSE state[k]]]

\* ctx.scalarState ||= defaultStateFactory(); ctx.scalarState[key] = collapsedSidebarItems
PrefetchContext(c, items) ==
    IF ~c.exists THEN c
    ELSE LET state == IF "scalarState" \in DOMAIN c THEN c.scalarState
                      ELSE defaultStateFactory
         IN  [exists |-> TRUE,
              scalarState |-> [k \in DOMAIN state \cup {SidebarStateKey} |->
                                  IF k = SidebarStateKey THEN items ELSE state[k]]]

onServerPrefetch ==
    /\ phase = "server"
    /\ phase' = "rendered"
    /\ collapsedSidebarItems' = PrefetchCollapsed(collapsedSidebarItems)
    /\ ctx' = PrefetchContext(ctx, collapsedSidebarItems')
    /\ thrown' = NoError
    /\ lastOp' = [name |-> "onServerPrefetch"]
    /\ UNCHANGED <<parsedSpec, hash, location, scrollTop, pendingScroll, burst,
                   elementHeight, tippyScrolledTop, downloadSubscribed>>
    /\ UNCHANGED <<slotVars, clientVars>>

\* the collapse state the client starts from: the snapshot the server handed
\* off, the empty map without one; the server's context does not exist on
\* the client
HydratedItems(c) ==
    IF c.exists /\ "scalarState" \in DOMAIN c THEN c.scalarState[SidebarStateKey] ELSE <<>>

Hydrate ==
    /\ phase = "rendered"
    /\ phase' = "client"
    /\ collapsedSidebarItems' = HydratedItems(ctx)
    /\ ctx' = [exists |-> FALSE]
    /\ thrown' = NoError
    /\ lastOp' = [name |-> "hydrate"]
    /\ UNCHANGED <<parsedSpec, hash, location, scrollTop, pendingScroll, burst,
                   elementHeight, tippyScrolledTop, downloadSubscribed>>
    /\ UNCHANGED <<slotVars, clientVars>>

----------------------------------------------------------------------------
(* The debounced scroll handler *)

ScrollOffsets == {0, ScrollThreshold - 1, ScrollThreshold, 4 * ScrollThreshold}

\* window.location after history.replaceState({}, '', url), url given by its parts
replaceState(parts) ==
    [pathname |-> parts[1],
     search |-> IF Len(parts) >= 2 THEN parts[2] ELSE "",
     hash |-> IF Len(parts) >= 3 THEN parts[3] ELSE ""]

\* value.target.scrollTop ?? 0, read when the handler body runs
scrollDistance(value) ==
    IF value.target = "documentEl" THEN scrollTop ELSE 0

\* the events of a debounce window, as far as the handler could tell them
\* apart: the offset of the last one, and whether one before it was under the
\* threshold
NoBurst == [under |-> FALSE, last |-> 0]
BurstAfter(offset) ==
    [under |-> (pendingScroll # <<>> /\ (burst.under \/ burst.last < ScrollThreshold)),
     last |-> offset]

\* the handler body run for every event of the window, not for the last alone
ScrollBody_AnyOfBurst(value) ==
    IF scrollDistance(value) < ScrollThreshold \/ burst.under
    THEN /\ location' = replaceState(<<location.pathname, location.search>>)
         /\ hash' = ""
    ELSE UNCHANGED <<location, hash>>

\* the handler body with the threshold itself counted as near the top
ScrollBody_Inclusive(value) ==
    IF scrollDistance(value) <= ScrollThreshold
    THEN /\ location' = replaceState(<<location.pathname, location.search>>)
         /\ hash' = ""
    ELSE UNCHANGED <<location, hash>>

\* the body of the debounced function
ScrollBody(value) ==
    IF scrollDistance(value) < ScrollThreshold
    THEN /\ location' = replaceState(<<location.pathname, location.search>>)
         /\ hash' = ""
    ELSE UNCHANGED <<location, hash>>

\* @scroll.passive="debouncedScroll": a scroll event of the container (re)arms
\* the debounce timer; the call held back before is superseded
ScrollEvent(offset) ==
    /\ phase = "mounted"
    /\ scrollTop' = offset
    /\ pendingScroll' = <<[target |-> "documentEl"]>>
    /\ burst' = BurstAfter(offset)
    /\ thrown' = NoError
    /\ lastOp' = [name |-> "scroll"]
    /\ UNCHANGED <<parsedSpec, hash, location, collapsedSidebarItems, ctx,
                   phase, elementHeight, tippyScrolledTop, downloadSubscribed>>
    /\ UNCHANGED <<slotVars, clientVars>>

\* the debounce timer fires and the handler body runs with the call held back
debouncedScroll ==
    /\ pendingScroll # <<>>
    /\ ScrollBody(pendingScroll[1])
    /\ pendingScroll' = <<>>
    /\ burst' = NoBurst
    /\ thrown' = NoError
    /\ lastOp' = [name |-> "debouncedScroll", offset |-> scrollDistance(pendingScroll[1]),
                  cleared |-> (hash # "" /\ hash' = ""), earlierUnder |-> burst.under]
    /\ UNCHANGED <<parsedSpec, collapsedSidebarItems, ctx, phase, scrollTop,
                   elementHeight, tippyScrolledTop, downloadSubscribed>>
    /\ UNCHANGED <<slotVars, clientVars>>

\* the '#'-prefixed form window.location.hash has
LocationHash(fragment) == IF fragment = "" THEN "" ELSE "#" \o fragment

\* navigation to a fragment: the hash listener mirrors it into hash
HashChange(fragment) ==
    /\ phase = "mounted"
    /\ fragment # hash
    /\ location' = [location EXCEPT !.hash = LocationHash(fragment)]
    /\ hash' = fragment
    /\ thrown' = NoError
    /\ lastOp' = [name |-> "hashchange"]
    /\ UNCHANGED <<parsedSpec, collapsedSidebarItems, ctx, phase, scrollTop,
                   pendingScroll, burst, elementHeight, tippyScrolledTop,
                   downloadSubscribed>>
    /\ UNCHANGED <<slotVars, clientVars>>

----------------------------------------------------------------------------
(* Sidebar interaction *)

\* the user toggles a node of the sidebar tree
Toggle(key) ==
    /\ phase = "mounted"
    /\ key \in KnownSections
    /\ collapsedSidebarItems' = toggleCollapsedSidebarItem(collapsedSidebarItems, key)
    /\ thrown' = NoError
    /\ lastOp' = [name |-> "toggle", key |-> key]
    /\ UNCHANGED <<parsedSpec, hash, location, ctx, phase, scrollTop,
                   pendingScroll, burst, elementHeight, tippyScrolledTop,
                   downloadSubscribed>>
    /\ UNCHANGED <<slotVars, clientVars>>

----------------------------------------------------------------------------
(* The resize observer *)

Heights == {100 * i : i \in 1..MaxHeights}
ResizeEntry(h) == [contentRect |-> [height |-> h]]
ResizeEntryLists == SeqsNoRepeat({ResizeEntry(h) : h \in Heights}, MaxResizeEntries)

\* entries[0].contentRect.height + 'px'; entries[0] is undefined for an empty
\* list and reading contentRect of it throws
ResizeThrows(entries) == Len(entries) = 0
ResizeHeight(entries) == ToString(entries[1].contentRect.height) \o "px"

ResizeCallback(entries) ==
    /\ phase = "mounted"
    /\ IF ResizeThrows(entries)
       THEN /\ thrown' = "TypeError"
            /\ UNCHANGED elementHeight
       ELSE /\ thrown' = NoError
            /\ elementHeight' = ResizeHeight(entries)
    /\ lastOp' = [name |-> "resize", empty |-> (entries = <<>>)]
    /\ UNCHANGED <<parsedSpec, hash, location, collapsedSidebarItems, ctx,
                   phase, scrollTop, pendingScroll, burst, tippyScrolledTop,
                   downloadSubscribed>>
    /\ UNCHANGED <<slotVars, clientVars>>

----------------------------------------------------------------------------
(* Slot forwarding *)

ReferenceLayoutSlots ==
    {"header", "sidebar-start", "sidebar-end", "editor", "content-start", "content-end",
     "footer"}

Configurations == [showSidebar : BOOLEAN, isEditable : BOOLEAN, layout : {"classic", "modern"}]

Breadcrumbs == {""} \cup {"Tag " \o ToString(i) : i \in 1..MaxCrumbs}

\* slot props that captured the breadcrumb once, at setup
referenceSlotProps_Stale == [breadcrumb |-> "", spec |-> parsedSpec]

\* computed(() => ({ breadcrumb: breadcrumb.value, spec: props.parsedSpec }))
referenceSlotProps == [breadcrumb |-> breadcrumb, spec |-> parsedSpec]

\* computed(() => isLargeScreen.value || !props.configuration.isEditable)
showRenderedContent == isLargeScreen \/ ~configuration.isEditable

Outlet(name, host, props) == [name |-> name, host |-> host, props |-> props]

\* the <slot v-bind="referenceSlotProps" name=".."> outlets the template renders
TemplateSlots ==
    {Outlet("header", "layout", referenceSlotProps),
     Outlet("editor", "layout", referenceSlotProps),
     Outlet("sidebar-start", "ApiClientModal", referenceSlotProps),
     Outlet("sidebar-end", "ApiClientModal", referenceSlotProps)}
    \cup (IF configuration.showSidebar
          THEN {Outlet("sidebar-start", "Sidebar", referenceSlotProps),
                Outlet("sidebar-end", "Sidebar", referenceSlotProps)}
          ELSE {})
    \cup (IF showRenderedContent
          THEN {Outlet("content-start", "Content", referenceSlotProps),
                Outlet("content-end", "Content", referenceSlotProps)}
          ELSE {})
    \cup (IF showRenderedContent /\ footerSlot
          THEN {Outlet("footer", "layout", referenceSlotProps)}
          ELSE {})

\* the first render of the layout
RenderLayout ==
    /\ renderedSlots = {}
    /\ renderedSlots' = TemplateSlots
    /\ lastOp' = [name |-> "render"]
    /\ UNCHANGED <<configuration, isLargeScreen, footerSlot, breadcrumb>>
    /\ UNCHANGED <<layoutVars, clientVars>>

\* the sidebar state moves the breadcrumb; the template re-renders in the same flush
SetBreadcrumb(crumb) ==
    /\ renderedSlots # {}
    /\ crumb # breadcrumb
    /\ breadcrumb' = crumb
    /\ UNCHANGED <<configuration, isLargeScreen, footerSlot>>
    /\ UNCHANGED <<layoutVars, clientVars>>
    /\ renderedSlots' = TemplateSlots'
    /\ lastOp' = [name |-> "breadcrumb"]

\* the media query (min-width: 1150px) changes its answer
MediaQueryChange ==
    /\ renderedSlots # {}
    /\ isLargeScreen' = ~isLargeScreen
    /\ UNCHANGED <<configuration, footerSlot, breadcrumb>>
    /\ UNCHANGED <<layoutVars, clientVars>>
    /\ renderedSlots' = TemplateSlots'
    /\ lastOp' = [name |-> "mediaquery"]

\* the caller passes another configuration
SetConfiguration(cfg) ==
    /\ renderedSlots # {}
    /\ cfg # configuration
    /\ configuration' = cfg
    /\ UNCHANGED <<isLargeScreen, footerSlot, breadcrumb>>
    /\ UNCHANGED <<layoutVars, clientVars>>
    /\ renderedSlots' = TemplateSlots'
    /\ lastOp' = [name |-> "configuration"]

----------------------------------------------------------------------------
(* The embedded client widget and the request history *)

RootMarker == "scalar-app"

Contains(html, marker) == \E i \in DOMAIN html : html[i] = marker

\* a mount that has rendered nothing yet when the call returns
MountedHtml_Deferred(html) == html

\* what createApiClientWeb leaves in the element it is given
MountedHtml(html) == Append(html, RootMarker)

createApiClientWeb ==
    /\ ~Contains(container, RootMarker)
    /\ container' = MountedHtml(container)
    /\ lastOp' = [name |-> "createApiClientWeb"]
    /\ UNCHANGED <<requestHistoryOrder, renderedRows>>
    /\ UNCHANGED <<layoutVars, slotVars>>

HistoryIds == 1..MaxHistory

\* the store records a request
AddHistory(id, atFront) ==
    /\ \A i \in DOMAIN requestHistoryOrder : requestHistoryOrder[i] # id
    /\ requestHistoryOrder' = IF atFront THEN <<id>> \o requestHistoryOrder
                              ELSE Append(requestHistoryOrder, id)
    /\ lastOp' = [name |-> "addHistory"]
    /\ UNCHANGED <<container, renderedRows>>
    /\ UNCHANGED <<layoutVars, slotVars>>

\* the store is cleared
ClearHistory ==
    /\ requestHistoryOrder # <<>>
    /\ requestHistoryOrder' = <<>>
    /\ lastOp' = [name |-> "clearHistory"]
    /\ UNCHANGED <<container, renderedRows>>
    /\ UNCHANGED <<layoutVars, slotVars>>

\* the rows in reverse order
HistoryRows_Reversed(order) ==
    [i \in 1..Len(order) |-> [key |-> order[Len(order) + 1 - i],
                              history |-> order[Len(order) + 1 - i]]]

\* <RequestHistoryItem v-for="history in requestHistoryOrder" :key="history" :history="history" />
HistoryRows(order) == [i \in 1..Len(order) |-> [key |-> order[i], history |-> order[i]]]

RenderHistory ==
    /\ renderedRows' = HistoryRows(requestHistoryOrder)
    /\ lastOp' = [name |-> "renderHistory"]
    /\ UNCHANGED <<container, requestHistoryOrder>>
    /\ UNCHANGED <<layoutVars, slotVars>>

----------------------------------------------------------------------------
(* Specifications *)

InitLayout ==
    /\ parsedSpec \in ParsedSpecs
    /\ hash \in Fragments
    /\ location = [pathname |-> "/reference", search |-> "?v=1", hash |-> LocationHash(hash)]
    /\ collapsedSidebarItems = <<>>
    /\ phase \in {"server", "client"}
    /\ ctx \in IF phase = "server"
               THEN {[exists |-> FALSE], [exists |-> TRUE],
                     [exists |-> TRUE, scalarState |-> defaultStateFactory]}
               ELSE {[exists |-> FALSE]}
    /\ scrollTop = 0
    /\ pendingScroll = <<>>
    /\ burst = NoBurst
    /\ elementHeight = "100dvh"
    /\ tippyScrolledTop = FALSE
    /\ downloadSubscribed = FALSE
    /\ thrown = NoError

InitSlots ==
    /\ configuration \in Configurations
    /\ isLargeScreen \in BOOLEAN
    /\ footerSlot \in BOOLEAN
    /\ breadcrumb = ""
    /\ renderedSlots = {}

InitClient ==
    /\ container = <<>>
    /\ requestHistoryOrder = <<>>
    /\ renderedRows = <<>>

\* the parts a specification leaves alone
IdleLayout ==
    /\ InitLayout
    /\ parsedSpec = [info |-> "api"]
    /\ hash = ""
    /\ phase = "client"

IdleSlots ==
    /\ InitSlots
    /\ configuration = [showSidebar |-> TRUE, isEditable |-> FALSE, layout |-> "modern"]
    /\ isLargeScreen
    /\ ~footerSlot

\* the reference layout: render passes, mount, scroll, navigation, toggles, resize
Init == InitLayout /\ IdleSlots /\ InitClient /\ lastOp = [name |-> "setup"]

Next ==
    \/ onServerPrefetch
    \/ Hydrate
    \/ onMounted
    \/ \E offset \in ScrollOffsets : ScrollEvent(offset)
    \/ debouncedScroll
    \/ \E fragment \in Fragments : HashChange(fragment)
    \/ \E key \in TagSections : Toggle(key)
    \/ \E entries \in ResizeEntryLists : ResizeCallback(entries)

Spec == Init /\ [][Next]_vars

\* the layout's template and its slots
InitSlotSpec ==
    /\ InitLayout /\ hash = "" /\ phase = "client" /\ InitSlots /\ InitClient /\ lastOp = [name |-> "setup"]

NextSlots ==
    \/ RenderLayout
    \/ \E crumb \in Breadcrumbs : SetBreadcrumb(crumb)
    \/ MediaQueryChange
    \/ \E cfg \in Configurations : SetConfiguration(cfg)

SpecSlots == InitSlotSpec /\ [][NextSlots]_vars

\* the embedded client: the widget's mount and the request-history list
InitClientSpec ==
    /\ IdleLayout /\ IdleSlots /\ InitClient /\ lastOp = [name |-> "setup"]

NextClient ==
    \/ createApiClientWeb
    \/ \E id \in HistoryIds, atFront \in BOOLEAN : AddHistory(id, atFront)
    \/ ClearHistory
    \/ RenderHistory

SpecClient == InitClientSpec /\ [][NextClient]_vars

----------------------------------------------------------------------------
(* Properties *)

\* the entry of key is the same in the maps a and b
SameEntry(a, b, key) ==
    /\ (key \in DOMAIN a) = (key \in DOMAIN b)
    /\ key \in DOMAIN a => a[key] = b[key]

\* the keys two maps hold, together with every section a document can have
KeysOf(a, b) == DOMAIN a \cup DOMAIN b \cup TagSections

MountStep == phase = "client" /\ phase' = "mounted"

\* C1: when the mount hook runs with a non-empty fragment that identifies a
\* known section, that section's entry is true right after the hook, and the
\* hook changes no other entry of the collapse-state map (so it forces no
\* other section open, the first tag's included), also after a server pass.
C1_FragmentSectionExpandedOnMount ==
    [][(MountStep /\ hash # "" /\ getSectionId(hash) \in KnownSections) =>
          /\ IsExpanded(collapsedSidebarItems', getSectionId(hash))
          /\ \A key \in KeysOf(collapsedSidebarItems, collapsedSidebarItems')
                          \ {getSectionId(hash)} :
                SameEntry(collapsedSidebarItems, collapsedSidebarItems', key)]_vars

\* a mount after a server pass, with a fragment that names a section other
\* than the first tag's
C1_Witness ==
    /\ lastOp.name = "onMounted"
    /\ lastOp.before # <<>>
    /\ hash # ""
    /\ getSectionId(hash) \in KnownSections
    /\ FirstTag(parsedSpec) # Null
    /\ getTagId(FirstTag(parsedSpec)[1]) # getSectionId(hash)
    /\ IsExpanded(collapsedSidebarItems, getSectionId(hash))

\* C2: when the mount hook runs with an empty fragment and the document has a
\* top-level tag, the first declared tag's section is true after the hook;
\* with an empty fragment and no tags the hook changes no entry.
C2_FirstTagExpandedOnMount ==
    [][(MountStep /\ hash = "") =>
          IF "tags" \in DOMAIN parsedSpec /\ parsedSpec.tags # <<>>
          THEN IsExpanded(collapsedSidebarItems', getTagId(parsedSpec.tags[1]))
          ELSE collapsedSidebarItems' = collapsedSidebarItems]_vars

\* a client-only mount without fragment of a document with two tags
C2_Witness ==
    /\ lastOp.name = "onMounted"
    /\ hash = ""
    /\ "tags" \in DOMAIN parsedSpec
    /\ Len(parsedSpec.tags) >= 2
    /\ IsExpanded(collapsedSidebarItems, getTagId(parsedSpec.tags[1]))
    /\ ~IsExpanded(collapsedSidebarItems, getTagId(parsedSpec.tags[2]))

DebounceFires == pendingScroll # <<>> /\ pendingScroll' = <<>>

\* C3: when the debounced scroll handler runs, the fragment is cleared (hash
\* empty, the URL replaced by path plus query) if the container's scroll
\* offset is under 50, and hash and URL are unchanged if it is 50 or more.
C3_ScrollClearsFragmentUnderThreshold ==
    [][DebounceFires =>
          IF scrollTop < 50
          THEN /\ hash' = ""
               /\ location'.hash = ""
               /\ location'.pathname = location.pathname
               /\ location'.search = location.search
          ELSE hash' = hash /\ location' = location]_vars

\* the handler has run at an offset under the threshold and cleared a fragment
C3_Witness ==
    /\ lastOp.name = "debouncedScroll"
    /\ lastOp.offset < ScrollThreshold
    /\ lastOp.cleared
    /\ hash = ""
    /\ location.hash = ""

\* the map with the first declared tag's section expanded and nothing else
FirstTagOnlyItems ==
    IF "tags" \in DOMAIN parsedSpec /\ parsedSpec.tags # <<>>
    THEN (getTagId(parsedSpec.tags[1]) :> TRUE)
    ELSE <<>>

\* the hand-off structure holds the collapse-state map whenever a server
\* context exists
HandOffWritten ==
    ctx.exists => /\ "scalarState" \in DOMAIN ctx
                  /\ ctx.scalarState[SidebarStateKey] = collapsedSidebarItems

\* C4, as stated: after the server pass the collapse state is the one the
\* client mount hook computes for the same document and fragment (the
\* fragment's section if there is a fragment, else the first tag's), and the
\* hand-off holds it. Stated for the fragments the claim names: none, or one
\* that identifies a known section.
C4_ServerPassEqualsClientMount ==
    (phase = "rendered" /\ (hash = "" \/ getSectionId(hash) \in KnownSections)) =>
        /\ collapsedSidebarItems = MountCollapsed(<<>>)
        /\ HandOffWritten

\* C4, amended: the server pass expands the first tag's section whatever the
\* fragment (what the mount hook computes for an empty fragment) and writes
\* that map to the hand-off when a server context exists; the client starts
\* from the hand-off (from the empty map without one), and after the mount
\* hook the expanded sections are those of a client-only mount plus those
\* the client started from.
C4_ServerPassExpandsFirstTag ==
    /\ phase = "rendered" =>
          /\ collapsedSidebarItems = FirstTagOnlyItems
          /\ HandOffWritten
    /\ lastOp.name = "hydrate" => collapsedSidebarItems \in {<<>>, FirstTagOnlyItems}
    /\ lastOp.name = "onMounted" =>
          /\ lastOp.before \in {<<>>, FirstTagOnlyItems}
          /\ \A key \in KeysOf(collapsedSidebarItems, <<>>) :
                IsExpanded(collapsedSidebarItems, key) <=>
                    \/ IsExpanded(MountCollapsed(<<>>), key)
                    \/ IsExpanded(lastOp.before, key)

\* a server pass with a fragment that names a section other than the first
\* tag's, the first tag's section written to the hand-off
C4_Witness ==
    /\ phase = "rendered"
    /\ ctx.exists
    /\ hash # ""
    /\ getSectionId(hash) \in KnownSections
    /\ FirstTag(parsedSpec) # Null
    /\ getTagId(FirstTag(parsedSpec)[1]) # getSectionId(hash)
    /\ IsExpanded(ctx.scalarState[SidebarStateKey], getTagId(FirstTag(parsedSpec)[1]))
    /\ ~IsExpanded(ctx.scalarState[SidebarStateKey], getSectionId(hash))

\* C5: a render of the request-history list yields exactly one row per entry
\* of the store's sequence, in the store's order, and leaves the store's
\* sequence as it was.
C5_HistoryRowsFollowStoreOrder ==
    [][lastOp'.name = "renderHistory" =>
          /\ Len(renderedRows') = Len(requestHistoryOrder)
          /\ \A i \in 1..Len(requestHistoryOrder) :
                /\ renderedRows'[i].history = requestHistoryOrder[i]
                /\ renderedRows'[i].key = requestHistoryOrder[i]
          /\ requestHistoryOrder' = requestHistoryOrder]_vars

\* a render of a store of three entries that are not in ascending order
C5_Witness ==
    /\ lastOp.name = "renderHistory"
    /\ Len(requestHistoryOrder) = 3
    /\ requestHistoryOrder[1] > requestHistoryOrder[2]
    /\ Len(renderedRows) = 3
    /\ renderedRows[1].history = requestHistoryOrder[1]

\* C6: a toggle flips the node's entry as the node reads it, toggling the node
\* again returns the entry to what it read before, and both leave every
\* other node's entry unchanged.
C6_ToggleFlipsAndRoundTrips ==
    [][lastOp'.name = "toggle" =>
          LET key == lastOp'.key
              once == collapsedSidebarItems'
              twice == toggleCollapsedSidebarItem(once, key)
          IN  /\ IsExpanded(once, key) = ~IsExpanded(collapsedSidebarItems, key)
              /\ IsExpanded(twice, key) = IsExpanded(collapsedSidebarItems, key)
              /\ \A other \in KeysOf(collapsedSidebarItems, twice) \ {key} :
                    /\ SameEntry(collapsedSidebarItems, once, other)
                    /\ SameEntry(collapsedSidebarItems, twice, other)]_vars

\* a node toggled back to collapsed while another node stays expanded
C6_Witness ==
    /\ lastOp.name = "toggle"
    /\ lastOp.key \in DOMAIN collapsedSidebarItems
    /\ ~collapsedSidebarItems[lastOp.key]
    /\ \E other \in DOMAIN collapsedSidebarItems :
          other # lastOp.key /\ collapsedSidebarItems[other]

\* C7: every extension point the layout renders is one of the seven named
\* ones and receives the payload whose breadcrumb is the sidebar state's
\* current breadcrumb and whose document is the parsed document, in every
\* configuration.
C7_SlotsShareReferenceSlotProps ==
    \A outlet \in renderedSlots :
        /\ outlet.name \in ReferenceLayoutSlots
        /\ DOMAIN outlet.props = {"breadcrumb", "spec"}
        /\ outlet.props.breadcrumb = breadcrumb
        /\ outlet.props.spec = parsedSpec

\* all seven extension points rendered, after the breadcrumb moved, for a
\* document with tags
C7_Witness ==
    /\ {outlet.name : outlet \in renderedSlots} = ReferenceLayoutSlots
    /\ breadcrumb # ""
    /\ "tags" \in DOMAIN parsedSpec
    /\ \A outlet \in renderedSlots : outlet.props.breadcrumb = breadcrumb

\* C8: createApiClientWeb on an empty container without the root marker
\* leaves the container holding the root marker when the call returns.
C8_WidgetMountLeavesRootMarker ==
    [][(lastOp'.name = "createApiClientWeb" /\ container = <<>>) =>
          Contains(container', "scalar-app")]_vars

\* the widget mounted into the empty container
C8_Witness ==
    /\ lastOp.name = "createApiClientWeb"
    /\ Contains(container, "scalar-app")

C10_ResizeWithoutEntryIsNoOp ==
    [][(lastOp'.name = "resize" /\ lastOp'.empty) =>
          /\ thrown' = NoError
          /\ elementHeight' = elementHeight]_vars

PrefetchStep == phase = "server" /\ phase' = "rendered"

\* C11, as stated: with the server context absent the server-prefetch hook
\* raises no error, writes no hand-off state and leaves the collapse-state
\* map unchanged.
C11_PrefetchWithoutContextIsNoOp ==
    [][(PrefetchStep /\ ~ctx.exists) =>
          /\ thrown' = NoError
          /\ ctx' = ctx
          /\ collapsedSidebarItems' = collapsedSidebarItems]_vars

\* C11, amended: with the server context absent the server-prefetch hook
\* raises no error and writes no hand-off state, and the only entry of the
\* collapse-state map it changes is the first tag's, which it sets to true;
\* the map is unchanged when the document has no tag.
C11_PrefetchWithoutContextWritesNoHandOff ==
    [][(PrefetchStep /\ ~ctx.exists) =>
          /\ thrown' = NoError
          /\ ctx' = ctx
          /\ "scalarState" \notin DOMAIN ctx'
          /\ IF "tags" \in DOMAIN parsedSpec /\ parsedSpec.tags # <<>>
             THEN /\ IsExpanded(collapsedSidebarItems', getTagId(parsedSpec.tags[1]))
                  /\ \A key \in KeysOf(collapsedSidebarItems, collapsedSidebarItems')
                                  \ {getTagId(parsedSpec.tags[1])} :
                        SameEntry(collapsedSidebarItems, collapsedSidebarItems', key)
             ELSE collapsedSidebarItems' = collapsedSidebarItems]_vars

\* a server pass without context over a document with tags: no hand-off, the
\* first tag's section expanded on the server
C11_Witness ==
    /\ lastOp.name = "onServerPrefetch"
    /\ ~ctx.exists
    /\ "tags" \in DOMAIN parsedSpec
    /\ parsedSpec.tags # <<>>
    /\ collapsedSidebarItems = (getTagId(parsedSpec.tags[1]) :> TRUE)

\* C12: the scroll events of one debounce window leave a single call held
\* back, the handler body runs once for it, after the window, and decides by
\* the last event alone: the fragment is cleared if the last event's offset
\* is under 50 and left as it was otherwise, whatever the offsets of the
\* events before it.
C12_BurstRunsOnceOnLastEvent ==
    [][/\ lastOp'.name = "scroll" => Len(pendingScroll') = 1
       /\ lastOp'.name = "debouncedScroll" =>
             /\ Len(pendingScroll) = 1
             /\ pendingScroll' = <<>>
             /\ IF burst.last < 50
                THEN hash' = "" /\ location'.hash = ""
                ELSE hash' = hash /\ location' = location]_vars

\* the handler has run after a window whose last event was at 50 or more and
\* in which an earlier event was under 50: the fragment is still there
C12_Witness ==
    /\ lastOp.name = "debouncedScroll"
    /\ lastOp.earlierUnder
    /\ lastOp.offset >= ScrollThreshold
    /\ ~lastOp.cleared
    /\ hash # ""
    /\ pendingScroll = <<>>

\* the keys whose entry differs between the maps a and b
ChangedKeys(a, b) == {key \in KeysOf(a, b) : ~SameEntry(a, b, key)}

\* C13: over the layout's own operations no expanded section is collapsed:
\* the mount hook and the server-prefetch hook each change at most one entry
\* and only to expanded, and the debounced scroll handler and the resize
\* callback leave the collapse-state map unchanged.
C13_LayoutNeverCollapses ==
    [][/\ lastOp'.name \in {"onMounted", "onServerPrefetch"} =>
             /\ \A key \in KeysOf(collapsedSidebarItems, collapsedSidebarItems') :
                   IsExpanded(collapsedSidebarItems, key) =>
                       IsExpanded(collapsedSidebarItems', key)
             /\ Cardinality(ChangedKeys(collapsedSidebarItems, collapsedSidebarItems')) <= 1
             /\ \A key \in ChangedKeys(collapsedSidebarItems, collapsedSidebarItems') :
                   IsExpanded(collapsedSidebarItems', key)
       /\ lastOp'.name \in {"scroll", "debouncedScroll", "resize"} =>
             collapsedSidebarItems' = collapsedSidebarItems]_vars

\* a mount that found a section expanded, kept it and expanded a second one
C13_Witness ==
    /\ lastOp.name = "onMounted"
    /\ \E kept \in DOMAIN lastOp.before :
          /\ lastOp.before[kept]
          /\ IsExpanded(collapsedSidebarItems, kept)
          /\ \E opened \in DOMAIN collapsedSidebarItems \ {kept} :
                /\ collapsedSidebarItems[opened]
                /\ opened \notin DOMAIN lastOp.before

====
